---- MODULE Spec2Model ----
(***************************************************************************)
(* A model of the two components of the repository:                        *)
(*   - the TestGrid dashboard generator (package main, func main), which   *)
(*     walks the release controller's configuration, routes every verify   *)
(*     job to a blocking or informing dashboard, merges the dashboard       *)
(*     names into groups.yaml and writes one file per dashboard;           *)
(*   - the DynamicCensor of pkg/secrets, a mutex-guarded set of secrets    *)
(*     with the censorer that is refreshed from it.                        *)
(***************************************************************************)
EXTENDS Naturals, Sequences, FiniteSets, TLC

VARIABLES
    pc,          \* where main is: walk, readGroups, writeGroups, writeDash, done, fatal
    nfiles,      \* files the walk has visited so far
    visit,       \* the locals of the walk callback's latest invocation
    dashboards,  \* var dashboards []dashboard
    groupFile,   \* groups.yaml as it was read (its pre-run content)
    groups,      \* var groups config.Configuration, after the redhat merge
    next,        \* index of the dashboard the final loop is at
    attempts,    \* every ioutil.WriteFile call so far, in order
    secrets,     \* DynamicCensor.secrets
    censorer,    \* the secrets the ReloadingCensorer was last refreshed with
    lock,        \* the holder of the DynamicCensor's mutex, 0 when it is free
    call,        \* per thread: the call it is in and where
    ncalls,      \* calls made so far
    requested,   \* every string passed to AddSecrets so far
    everIn,      \* every string that has been in secrets
    redacted,    \* the latest Redact: its text, its result, the strings added by then
    returned     \* what the latest ReadFromEnv or ReadFromFile returned

derivVars == <<pc, nfiles, visit, dashboards, groupFile, groups, next, attempts>>

censorVars == <<secrets, censorer, lock, call, ncalls, requested, everIn, redacted, returned>>

vars == <<derivVars, censorVars>>

----------------------------------------------------------------------------
(* Bounds of the model *)

\* files a walk visits at most
MaxFiles == 2
\* dashboard groups groups.yaml holds at most
MaxGroups == 2
\* threads that use one DynamicCensor
MaxThreads == 2
\* calls the threads make in all
MaxCalls == 3

----------------------------------------------------------------------------
(* Strings.  Go compares strings byte-wise; Lexical lists every name the   *)
(* model uses in that order, and StrLess compares by position in it.       *)

ExcludedJob == "release-openshift-origin-installer-e2e-aws-upgrade"

Lexical ==
    << "e2e-aws",
       "e2e-gcp",
       "kubernetes",
       "redhat-openshift-ocp-release-4.1-blocking",
       "redhat-openshift-ocp-release-4.1-informing",
       "redhat-openshift-ocp-release-4.2-blocking",
       "redhat-openshift-ocp-release-4.2-informing",
       "redhat-openshift-okd-release-4.1-blocking",
       "redhat-openshift-okd-release-4.1-informing",
       "redhat-openshift-okd-release-4.2-blocking",
       "redhat-openshift-okd-release-4.2-informing",
       "redhat-osd",
       "release-openshift-origin-installer-e2e-aws-upgrade" >>

Rank(s) == CHOOSE i \in 1..Len(Lexical) : Lexical[i] = s

StrLess(a, b) == Rank(a) < Rank(b)

Range(seq) == {seq[i] : i \in 1..Len(seq)}

\* sets.String.List(): the members, sorted
RECURSIVE List(_)
List(set) ==
    IF set = {} THEN <<>>
    ELSE LET min == CHOOSE x \in set : \A y \in set : ~StrLess(y, x)
         IN <<min>> \o List(set \ {min})

\* insertion of one element into a sequence sorted by Name
RECURSIVE InsertByName(_, _)
InsertByName(e, sorted) ==
    IF sorted = <<>> THEN <<e>>
    ELSE IF StrLess(e.Name, Head(sorted).Name) THEN <<e>> \o sorted
    ELSE <<Head(sorted)>> \o InsertByName(e, Tail(sorted))

\* sort.Slice(s, func(i, j) bool { return s[i].Name < s[j].Name }).  Elements
\* of one name are equal records here, so the unstable sort has one result.
RECURSIVE SortByName(_)
SortByName(s) ==
    IF s = <<>> THEN <<>> ELSE InsertByName(Head(s), SortByName(Tail(s)))

----------------------------------------------------------------------------
(* dashboards, tabs and test groups *)

dashboardFor(product, version, role) ==
    [ Name |-> "redhat-openshift-" \o product \o "-release-" \o version \o "-" \o role,
      DashboardTab |-> <<>>,
      testGroups |-> <<>> ]

\* the template fields of a tab are the same for every tab
dashboardTabFor(name) ==
    [ Name |-> name, TestGroupName |-> name, BaseOptions |-> "width=10" ]

testGroupFor(name) ==
    [ Name |-> name, GcsPrefix |-> "origin-ci-test/logs/" \o name ]

add(d, name) ==
    [ d EXCEPT !.DashboardTab = Append(@, dashboardTabFor(name)),
               !.testGroups = Append(@, testGroupFor(name)) ]

----------------------------------------------------------------------------
(* The release descriptor and encoding/json's decoding of it.  A document  *)
(* is [mirrorKey, mirrorName, tagName, verify]: the key under which         *)
(* publish.mirror-to-origin holds its {name: ...} object, that name, the   *)
(* name of publish.tag.tagRef, and the verify object.                      *)

\* the struct tag and the Go name of release.Publish.Mirror.ImageStreamRef
MirrorTag == "'imageStreamRef'"
MirrorGoName == "ImageStreamRef"

\* encoding/json's isValidTag: a quote character is reserved
isValidTag(tag) == tag \notin {"", "'imageStreamRef'"}

\* the name encoding/json decodes the field under: the tag when it is valid,
\* the Go field name otherwise
FieldName(tag, goName) == IF isValidTag(tag) THEN tag ELSE goName

\* case folding of the key spellings the model uses
Fold(key) ==
    CASE key = "imageStreamRef" -> "imagestreamref"
      [] key = "ImageStreamRef" -> "imagestreamref"
      [] key = "'imageStreamRef'" -> "'imagestreamref'"

\* an object key selects a field by exact name or, failing that, case-insensitively
KeyMatches(key, tag, goName) ==
    \/ key = FieldName(tag, goName)
    \/ Fold(key) = Fold(FieldName(tag, goName))

\* json.Unmarshal(data, &releaseConfig)
Unmarshal(doc) ==
    [ MirrorName |-> IF KeyMatches(doc.mirrorKey, MirrorTag, MirrorGoName)
                     THEN doc.mirrorName ELSE "",
      TagName |-> doc.tagName,
      Verify |-> doc.verify ]

\* variant: the tag name is looked at before the mirror name
PublishTagFirst(rc) ==
    IF rc.TagName # "" THEN [ok |-> TRUE, product |-> "ocp", version |-> rc.TagName]
    ELSE IF rc.MirrorName # "" THEN [ok |-> TRUE, product |-> "okd", version |-> rc.MirrorName]
    ELSE [ok |-> FALSE, product |-> "", version |-> ""]

\* var product, version string ... (lines 149-159)
Publish(rc) ==
    IF rc.MirrorName # "" THEN [ok |-> TRUE, product |-> "okd", version |-> rc.MirrorName]
    ELSE IF rc.TagName # "" THEN [ok |-> TRUE, product |-> "ocp", version |-> rc.TagName]
    ELSE [ok |-> FALSE, product |-> "", version |-> ""]

\* variant: the exclusion applies to a blocking entry only
SkippedOnlyIfBlocking(job) == job.Name = ExcludedJob /\ ~job.Optional

\* if job.ProwJob.Name == "release-openshift-origin-installer-e2e-aws-upgrade"
Skipped(job) == job.Name = ExcludedJob

\* variant: the two branches swapped
RoleInverted(job) == IF job.Optional THEN "blocking" ELSE "informing"

\* if job.Optional { informing.add } else { blocking.add }
Role(job) == IF job.Optional THEN "informing" ELSE "blocking"

\* for _, job := range releaseConfig.Verify, the keys taken in the order `order`
RECURSIVE RangeVerify(_, _, _)
RangeVerify(verify, order, acc) ==
    IF order = <<>> THEN acc
    ELSE LET job == verify[Head(order)]
             step == IF Skipped(job) THEN acc
                     ELSE IF Role(job) = "informing"
                          THEN [acc EXCEPT !.informing = add(@, job.Name)]
                          ELSE [acc EXCEPT !.blocking = add(@, job.Name)]
         IN RangeVerify(verify, Tail(order), step)

\* variant: a dashboard is appended whatever it holds
RetainedAlways(d) == TRUE

\* if len(blocking.testGroups) > 0 { dashboards = append(dashboards, blocking) }
Retained(d) == Len(d.testGroups) > 0

Kept(pair) ==
    (IF Retained(pair.blocking) THEN <<pair.blocking>> ELSE <<>>)
    \o (IF Retained(pair.informing) THEN <<pair.informing>> ELSE <<>>)

\* the orders in which Go may range over a map with these keys
Orders(keys) ==
    {o \in [1..Cardinality(keys) -> keys] : \A i, j \in DOMAIN o : i # j => o[i] # o[j]}

----------------------------------------------------------------------------
(* Inputs *)

VerifyKeys == {"aws", "gcp"}
JobNames == {"e2e-aws", "e2e-gcp", ExcludedJob}
Jobs == [Optional : BOOLEAN, Name : JobNames]

\* the verify objects: under "aws" a job or the excluded job, either way
\* optional or not; under "gcp" a job of its own or the name of the other
\* entry with the optional flag set
VerifyMaps ==
    { v \in UNION {[ks -> Jobs] : ks \in SUBSET VerifyKeys} :
        /\ "aws" \in DOMAIN v => v["aws"].Name \in {"e2e-aws", ExcludedJob}
        /\ "gcp" \in DOMAIN v => v["gcp"] \in { [Optional |-> TRUE, Name |-> "e2e-aws"],
                                                [Optional |-> FALSE, Name |-> "e2e-gcp"] } }

Docs ==
    [ mirrorKey : {"imageStreamRef"}, mirrorName : {"", "4.1"},
      tagName : {"", "4.2"}, verify : VerifyMaps ]
    \cup [ mirrorKey : {"'imageStreamRef'"}, mirrorName : {"4.1"},
           tagName : {"", "4.2"}, verify : VerifyMaps ]

NoDoc == [mirrorKey |-> "imageStreamRef", mirrorName |-> "", tagName |-> "", verify |-> <<>>]

\* what the walk can meet: an entry the walk itself fails on, a directory, a
\* file of another extension, a .json file it cannot read, one that is not
\* JSON, and a .json file holding a document
Files ==
    [kind : {"walkerr", "dir", "other", "unreadable", "garbage"}, doc : {NoDoc}]
    \cup [kind : {"json"}, doc : Docs]

NoVisit == [kind |-> "none"]

\* the documents of the whole run: a tag name or none, and under "gcp" only
\* a job of its own
RunDocs ==
    { d \in Docs :
        /\ d.mirrorName = ""
        /\ "gcp" \in DOMAIN d.verify => d.verify["gcp"].Name = "e2e-gcp" }

RunFiles ==
    [kind : {"walkerr", "dir", "other", "unreadable", "garbage"}, doc : {NoDoc}]
    \cup [kind : {"json"}, doc : RunDocs]

\* the dashboard name lists a group of groups.yaml may hold: none, or an
\* unsorted one with a repeated name and a name this run derives too
MemberLists ==
    { <<>>,
      << "redhat-osd", "kubernetes", "redhat-osd",
         "redhat-openshift-ocp-release-4.2-blocking" >> }

GroupEntries ==
    [Name : {"redhat"}, DashboardNames : MemberLists]
    \cup [Name : {"other"}, DashboardNames : MemberLists \ {<<>>}]

GroupFiles ==
    [kind : {"unreadable", "garbage"}, DashboardGroups : {<<>>}]
    \cup [ kind : {"yaml"},
           DashboardGroups : UNION {[1..n -> GroupEntries] : n \in 0..MaxGroups} ]

GroupsYaml == "groups.yaml"

----------------------------------------------------------------------------
(* the group index and the files *)

\* dashboardNames := sets.NewString(); for _, dash := range dashboards { Insert(dash.Name) }
DashboardNames(ds) == {ds[i].Name : i \in 1..Len(ds)}

\* variant: the list of a redhat group is replaced by the names of this run
MergeOwnOnly(gs, names) ==
    [ i \in 1..Len(gs) |->
        IF gs[i].Name = "redhat"
        THEN [gs[i] EXCEPT !.DashboardNames = List(names)]
        ELSE gs[i] ]

\* for _, dashGroup := range groups.DashboardGroups (lines 202-207):
\* dashboardNames keeps growing over the groups named redhat
RECURSIVE MergeGroups(_, _)
MergeGroups(gs, names) ==
    IF gs = <<>> THEN <<>>
    ELSE LET g == Head(gs)
         IN IF g.Name = "redhat"
            THEN LET all == names \cup Range(g.DashboardNames)
                 IN <<[g EXCEPT !.DashboardNames = List(all)]>> \o MergeGroups(Tail(gs), all)
            ELSE <<g>> \o MergeGroups(Tail(gs), names)

\* the three sort.Slice calls of lines 224-234
Sorted(dash) ==
    [ dash EXCEPT !.testGroups = SortByName(@), !.DashboardTab = SortByName(@) ]

\* partialConfig, as marshalled
PartialConfig(dash) ==
    [ TestGroups |-> dash.testGroups,
      Dashboards |-> << [Name |-> dash.Name, DashboardTab |-> dash.DashboardTab] >> ]

\* path.Join(o.testGridConfigDir, fmt.Sprintf("%s.yaml", dash.Name))
FileFor(dash) == dash.Name \o ".yaml"

\* a failed write of groups.yaml is fatal
AfterGroups(ok) == IF ok THEN "writeDash" ELSE "fatal"

\* variant: the loop goes on after a failed write
AfterDashboardGoesOn(ok) == "writeDash"

\* a failed write of a dashboard file is fatal
AfterDashboard(ok) == IF ok THEN "writeDash" ELSE "fatal"

----------------------------------------------------------------------------
(* main *)

DerivInit ==
    /\ pc = "walk"
    /\ nfiles = 0
    /\ visit = NoVisit
    /\ dashboards = <<>>
    /\ groupFile = [kind |-> "unread"]
    /\ groups = <<>>
    /\ next = 0
    /\ attempts = <<>>

\* the callback returns an error: the walk stops and main logs it as fatal
VisitError(f) ==
    /\ pc = "walk" /\ nfiles < MaxFiles
    /\ f.kind \in {"walkerr", "unreadable", "garbage"}
    /\ nfiles' = nfiles + 1
    /\ visit' = [kind |-> f.kind]
    /\ pc' = "fatal"
    /\ UNCHANGED censorVars
    /\ UNCHANGED <<dashboards, groupFile, groups, next, attempts>>

\* info.IsDir() || filepath.Ext(path) != ".json"
VisitSkip(f) ==
    /\ pc = "walk" /\ nfiles < MaxFiles
    /\ f.kind \in {"dir", "other"}
    /\ nfiles' = nfiles + 1
    /\ visit' = [kind |-> f.kind]
    /\ UNCHANGED censorVars
    /\ UNCHANGED <<pc, dashboards, groupFile, groups, next, attempts>>

\* neither publish name is set: logged, and the walk goes on
VisitNoPublish(f) ==
    /\ pc = "walk" /\ nfiles < MaxFiles
    /\ f.kind = "json"
    /\ ~Publish(Unmarshal(f.doc)).ok
    /\ nfiles' = nfiles + 1
    /\ visit' = [kind |-> "nopublish", doc |-> f.doc]
    /\ UNCHANGED censorVars
    /\ UNCHANGED <<pc, dashboards, groupFile, groups, next, attempts>>

VisitDescriptor(f) ==
    /\ pc = "walk" /\ nfiles < MaxFiles
    /\ f.kind = "json"
    /\ LET rc == Unmarshal(f.doc)
           p == Publish(rc)
       IN /\ p.ok
          /\ \E order \in Orders(DOMAIN rc.Verify) :
                LET built == RangeVerify(rc.Verify, order,
                                [ blocking |-> dashboardFor(p.product, p.version, "blocking"),
                                  informing |-> dashboardFor(p.product, p.version, "informing") ])
                IN /\ dashboards' = dashboards \o Kept(built)
                   /\ visit' = [ kind |-> "descriptor", doc |-> f.doc,
                                 product |-> p.product, version |-> p.version,
                                 blocking |-> built.blocking, informing |-> built.informing ]
    /\ nfiles' = nfiles + 1
    /\ UNCHANGED censorVars
    /\ UNCHANGED <<pc, groupFile, groups, next, attempts>>

\* filepath.Walk returns nil: every file was visited
WalkDone ==
    /\ pc = "walk"
    /\ pc' = "readGroups"
    /\ visit' = NoVisit
    /\ UNCHANGED censorVars
    /\ UNCHANGED <<nfiles, dashboards, groupFile, groups, next, attempts>>

\* groups.yaml cannot be read, or is not a TestGrid configuration
ReadGroupsError(g) ==
    /\ pc = "readGroups"
    /\ g.kind \in {"unreadable", "garbage"}
    /\ groupFile' = g
    /\ pc' = "fatal"
    /\ UNCHANGED censorVars
    /\ UNCHANGED <<nfiles, visit, dashboards, groups, next, attempts>>

\* lines 185-207: the names of the dashboards, the read of groups.yaml and
\* the merge into the redhat group
ReadGroups(g) ==
    /\ pc = "readGroups"
    /\ g.kind = "yaml"
    /\ groupFile' = g
    /\ groups' = MergeGroups(g.DashboardGroups, DashboardNames(dashboards))
    /\ pc' = "writeGroups"
    /\ UNCHANGED censorVars
    /\ UNCHANGED <<nfiles, visit, dashboards, next, attempts>>

\* ioutil.WriteFile(groupFile, data, 0664)
WriteGroups ==
    /\ pc = "writeGroups"
    /\ attempts' = Append(attempts, [file |-> GroupsYaml, ok |-> TRUE,
                                     data |-> [DashboardGroups |-> groups]])
    /\ next' = 1
    /\ pc' = AfterGroups(TRUE)
    /\ UNCHANGED censorVars
    /\ UNCHANGED <<nfiles, visit, dashboards, groupFile, groups>>

WriteGroupsError ==
    /\ pc = "writeGroups"
    /\ attempts' = Append(attempts, [file |-> GroupsYaml, ok |-> FALSE,
                                     data |-> [DashboardGroups |-> groups]])
    /\ pc' = AfterGroups(FALSE)
    /\ UNCHANGED censorVars
    /\ UNCHANGED <<nfiles, visit, dashboards, groupFile, groups, next>>

\* yaml.Marshal(&groups) fails: fatal before the write
MarshalGroupsError ==
    /\ pc = "writeGroups"
    /\ pc' = "fatal"
    /\ UNCHANGED censorVars
    /\ UNCHANGED <<nfiles, visit, dashboards, groupFile, groups, next, attempts>>

\* one round of the loop over dashboards (lines 219-243): the sorts are in
\* place, on the slices dashboards[next] holds
WriteDashboard ==
    /\ pc = "writeDash"
    /\ next <= Len(dashboards)
    /\ LET dash == Sorted(dashboards[next])
       IN /\ dashboards' = [dashboards EXCEPT ![next] = dash]
          /\ attempts' = Append(attempts, [file |-> FileFor(dash), ok |-> TRUE,
                                           data |-> PartialConfig(dash)])
    /\ next' = next + 1
    /\ pc' = AfterDashboard(TRUE)
    /\ UNCHANGED censorVars
    /\ UNCHANGED <<nfiles, visit, groupFile, groups>>

WriteDashboardError ==
    /\ pc = "writeDash"
    /\ next <= Len(dashboards)
    /\ LET dash == Sorted(dashboards[next])
       IN /\ dashboards' = [dashboards EXCEPT ![next] = dash]
          /\ attempts' = Append(attempts, [file |-> FileFor(dash), ok |-> FALSE,
                                           data |-> PartialConfig(dash)])
    /\ pc' = AfterDashboard(FALSE)
    /\ UNCHANGED censorVars
    /\ UNCHANGED <<nfiles, visit, groupFile, groups, next>>

\* yaml.Marshal(&partialConfig) fails, after the sorts: fatal before the write
MarshalDashboardError ==
    /\ pc = "writeDash"
    /\ next <= Len(dashboards)
    /\ dashboards' = [dashboards EXCEPT ![next] = Sorted(dashboards[next])]
    /\ pc' = "fatal"
    /\ UNCHANGED censorVars
    /\ UNCHANGED <<nfiles, visit, groupFile, groups, next, attempts>>

\* logrus.Info("Finished generating TestGrid dashboards.")
Finish ==
    /\ pc = "writeDash"
    /\ next > Len(dashboards)
    /\ pc' = "done"
    /\ UNCHANGED censorVars
    /\ UNCHANGED <<nfiles, visit, dashboards, groupFile, groups, next, attempts>>

Walk(files) ==
    \E f \in files :
        VisitError(f) \/ VisitSkip(f) \/ VisitNoPublish(f) \/ VisitDescriptor(f)

DerivNext ==
    \/ Walk(RunFiles)
    \/ WalkDone
    \/ \E g \in GroupFiles : ReadGroupsError(g) \/ ReadGroups(g)
    \/ MarshalGroupsError \/ WriteGroups \/ WriteGroupsError
    \/ MarshalDashboardError \/ WriteDashboard \/ WriteDashboardError
    \/ Finish

WalkNext == Walk(Files) \/ WalkDone

----------------------------------------------------------------------------
(* pkg/secrets: strings are sequences of characters *)

A == <<"a">>
B == <<"b">>
AB == <<"a", "b">>
Empty == <<>>

IsSpace(c) == c \in {" ", "\n"}

\* strings.TrimSpace
RECURSIVE TrimLeft(_)
TrimLeft(s) == IF s # <<>> /\ IsSpace(Head(s)) THEN TrimLeft(Tail(s)) ELSE s

RECURSIVE TrimRight(_)
TrimRight(s) ==
    IF s # <<>> /\ IsSpace(s[Len(s)]) THEN TrimRight(SubSeq(s, 1, Len(s) - 1)) ELSE s

TrimSpace(s) == TrimRight(TrimLeft(s))

\* variant: the set is replaced by the new strings
InsertOverwrite(set, items) == items

\* c.secrets.Insert(s...)
Insert(set, items) == set \cup items

\* variant: the censorer is refreshed with the new strings only
RefreshArgsNewOnly(set, items) == items

\* the arguments of c.ReloadingCensorer.Refresh(c.secrets.List()...): the
\* whole set, whatever was just added
RefreshArgs(set, items) == set

\* position i of text lies in an occurrence of one of the strings
Covered(set, text, i) ==
    \E s \in set : \E j \in 1..Len(text) :
        /\ Len(s) > 0
        /\ j <= i /\ i < j + Len(s) /\ j + Len(s) - 1 <= Len(text)
        /\ SubSeq(text, j, j + Len(s) - 1) = s

\* the embedded censorer's redaction of text: every occurrence masked
Censor(set, text) ==
    [i \in 1..Len(text) |-> IF Covered(set, text, i) THEN "*" ELSE text[i]]

Threads == 1..MaxThreads

\* what the callers pass to AddSecrets
SecretArgs == {{A}, {AB}, {A, B}}
\* what os.Getenv returns: "" for an unset or empty variable
EnvValues == {Empty, B}
\* what os.ReadFile returns when it succeeds
FileContents == {<<" ", "\n">>, <<"b", "\n">>}
\* the texts passed to Redact
Texts == {<<"b", "a", "b">>, <<"b", "b">>}

Idle == [pc |-> "idle"]

NothingReturned == [op |-> "none"]

NothingRedacted == [text |-> <<>>, out |-> <<>>, quiet |-> FALSE, known |-> {}]

CensorInit ==
    /\ secrets = {}
    /\ censorer = {}
    /\ lock = 0
    /\ call = [t \in Threads |-> Idle]
    /\ ncalls = 0
    /\ requested = {}
    /\ everIn = {}
    /\ redacted = NothingRedacted
    /\ returned = NothingReturned

\* a thread enters AddSecrets(items...)
Enter(t, op, items, ret) ==
    /\ call[t].pc = "idle" /\ ncalls < MaxCalls
    /\ ncalls' = ncalls + 1
    /\ call' = [call EXCEPT ![t] = [pc |-> "lock", op |-> op, items |-> items, ret |-> ret]]
    /\ requested' = requested \cup items

AddSecrets(t, items) ==
    /\ Enter(t, "AddSecrets", items, Empty)
    /\ UNCHANGED derivVars
    /\ UNCHANGED <<secrets, censorer, lock, everIn, redacted, returned>>

\* ReadFromEnv: the variable is unset or empty, nothing is added
ReadFromEnvEmpty(t) ==
    /\ call[t].pc = "idle" /\ ncalls < MaxCalls
    /\ ncalls' = ncalls + 1
    /\ returned' = [op |-> "ReadFromEnv", value |-> Empty, err |-> FALSE]
    /\ UNCHANGED derivVars
    /\ UNCHANGED <<secrets, censorer, lock, call, requested, everIn, redacted>>

\* ReadFromEnv: ret != "", censor.AddSecrets(ret)
ReadFromEnv(t, ret) ==
    /\ ret # Empty
    /\ Enter(t, "ReadFromEnv", {ret}, ret)
    /\ UNCHANGED derivVars
    /\ UNCHANGED <<secrets, censorer, lock, everIn, redacted, returned>>

\* ReadFromFile: os.ReadFile fails, return "", err
ReadFromFileError(t) ==
    /\ call[t].pc = "idle" /\ ncalls < MaxCalls
    /\ ncalls' = ncalls + 1
    /\ returned' = [op |-> "ReadFromFile", value |-> Empty, err |-> TRUE]
    /\ UNCHANGED derivVars
    /\ UNCHANGED <<secrets, censorer, lock, call, requested, everIn, redacted>>

\* ReadFromFile: ret := strings.TrimSpace(string(bytes)); censor.AddSecrets(ret)
ReadFromFile(t, bytes) ==
    /\ Enter(t, "ReadFromFile", {TrimSpace(bytes)}, TrimSpace(bytes))
    /\ UNCHANGED derivVars
    /\ UNCHANGED <<secrets, censorer, lock, everIn, redacted, returned>>

\* c.Lock()
Lock(t) ==
    /\ call[t].pc = "lock"
    /\ lock = 0
    /\ lock' = t
    /\ call' = [call EXCEPT ![t].pc = "insert"]
    /\ UNCHANGED derivVars
    /\ UNCHANGED <<secrets, censorer, ncalls, requested, everIn, redacted, returned>>

\* c.secrets.Insert(s...)
InsertSecrets(t) ==
    /\ call[t].pc = "insert"
    /\ secrets' = Insert(secrets, call[t].items)
    /\ everIn' = everIn \cup secrets'
    /\ call' = [call EXCEPT ![t].pc = "refresh"]
    /\ UNCHANGED derivVars
    /\ UNCHANGED <<censorer, lock, ncalls, requested, redacted, returned>>

\* c.ReloadingCensorer.Refresh(c.secrets.List()...)
Refresh(t) ==
    /\ call[t].pc = "refresh"
    /\ censorer' = RefreshArgs(secrets, call[t].items)
    /\ call' = [call EXCEPT ![t].pc = "unlock"]
    /\ UNCHANGED derivVars
    /\ UNCHANGED <<secrets, lock, ncalls, requested, everIn, redacted, returned>>

\* the deferred c.Unlock(), and the return to the caller
Unlock(t) ==
    /\ call[t].pc = "unlock"
    /\ lock' = 0
    /\ call' = [call EXCEPT ![t] = Idle]
    /\ returned' = IF call[t].op = "AddSecrets" THEN returned
                   ELSE [op |-> call[t].op, value |-> call[t].ret, err |-> FALSE]
    /\ UNCHANGED derivVars
    /\ UNCHANGED <<secrets, censorer, ncalls, requested, everIn, redacted>>

\* Redact, on the censorer as it is now; it takes no lock of the DynamicCensor
Redact(text) ==
    /\ redacted' = [text |-> text, out |-> Censor(censorer, text),
                    quiet |-> lock = 0, known |-> everIn]
    /\ UNCHANGED derivVars
    /\ UNCHANGED <<secrets, censorer, lock, call, ncalls, requested, everIn, returned>>

CensorNext ==
    \/ \E t \in Threads :
          \/ \E items \in SecretArgs : AddSecrets(t, items)
          \/ ReadFromEnvEmpty(t)
          \/ \E v \in EnvValues : ReadFromEnv(t, v)
          \/ ReadFromFileError(t)
          \/ \E bytes \in FileContents : ReadFromFile(t, bytes)
          \/ Lock(t) \/ InsertSecrets(t) \/ Refresh(t) \/ Unlock(t)
    \/ \E text \in Texts : Redact(text)

----------------------------------------------------------------------------
(* Specifications *)

Init == DerivInit /\ CensorInit

\* a run of the generator
Spec == Init /\ [][DerivNext]_vars

\* the walk alone, over every document of Docs
SpecWalk == Init /\ [][WalkNext]_vars

\* threads on one DynamicCensor
SpecCensor == Init /\ [][CensorNext]_vars

----------------------------------------------------------------------------
(* Properties *)

NameCount(seq, n) == Cardinality({i \in DOMAIN seq : seq[i].Name = n})

EntryCount(verify, n, optional) ==
    Cardinality({k \in DOMAIN verify : verify[k].Name = n /\ verify[k].Optional = optional})

TabNames(d) == {d.DashboardTab[i].Name : i \in DOMAIN d.DashboardTab}

GroupNames(d) == {d.testGroups[i].Name : i \in DOMAIN d.testGroups}

\* C1, as stated: every job of the verify map of the descriptor just visited
\* is in exactly one of the two dashboards built for it, the informing one
\* if and only if it is optional.
C1_EveryJobInExactlyOne ==
    visit.kind = "descriptor" =>
        \A k \in DOMAIN visit.doc.verify :
            LET job == visit.doc.verify[k]
                inBlocking == job.Name \in GroupNames(visit.blocking)
                inInforming == job.Name \in GroupNames(visit.informing)
            IN /\ inBlocking # inInforming
               /\ inInforming <=> job.Optional

\* C1, amended: every entry of the verify map whose job name is not the
\* excluded one adds one test group and one tab to exactly one of the two
\* dashboards, informing if the entry is optional and blocking otherwise, and
\* an entry with the excluded name adds to neither: each dashboard holds a
\* name as often as the map has entries of that name with that flag.
C1_EntriesPartitioned ==
    visit.kind = "descriptor" =>
        \A n \in JobNames :
            LET expect(optional) ==
                    IF n = ExcludedJob THEN 0 ELSE EntryCount(visit.doc.verify, n, optional)
            IN /\ NameCount(visit.blocking.testGroups, n) = expect(FALSE)
               /\ NameCount(visit.blocking.DashboardTab, n) = expect(FALSE)
               /\ NameCount(visit.informing.testGroups, n) = expect(TRUE)
               /\ NameCount(visit.informing.DashboardTab, n) = expect(TRUE)

\* C1, witness: a descriptor whose verify map lists one job name twice, once
\* optional and once not, so that the name is in both dashboards.
C1_Witness ==
    /\ visit.kind = "descriptor"
    /\ \E n \in JobNames : n \in GroupNames(visit.blocking) /\ n \in GroupNames(visit.informing)

\* the successful writes of a file, and the content the last of them left
OkWrites(file) == {i \in DOMAIN attempts : attempts[i].file = file /\ attempts[i].ok}

FileContent(file) ==
    attempts[CHOOSE i \in OkWrites(file) : \A j \in OkWrites(file) : j <= i].data

SameNames(a, b) == \A n \in JobNames : NameCount(a, n) = NameCount(b, n)

\* C2, as stated: after a run that completed, the file named after each
\* retained dashboard holds that dashboard alone, with the tabs and the test
\* groups of the jobs routed to it.
C2_FileHoldsItsDashboard ==
    pc = "done" =>
        \A i \in DOMAIN dashboards :
            LET d == dashboards[i]
                file == FileFor(d)
            IN /\ OkWrites(file) # {}
               /\ Len(FileContent(file).Dashboards) = 1
               /\ FileContent(file).Dashboards[1].Name = d.Name
               /\ SameNames(FileContent(file).Dashboards[1].DashboardTab, d.DashboardTab)
               /\ SameNames(FileContent(file).TestGroups, d.testGroups)

GroupsWritten ==
    /\ Len(attempts) >= 1
    /\ attempts[1].file = GroupsYaml
    /\ attempts[1].ok

\* sorted, and no name twice
StrictlySorted(names) == \A i \in 1..(Len(names) - 1) : StrLess(names[i], names[i + 1])

RedhatGroups(gs) == {i \in DOMAIN gs : gs[i].Name = "redhat"}

\* C3: once groups.yaml is written, the list of the group named redhat is
\* the sorted union, without repetition, of the list it had and the names of
\* the dashboards of this run, and every other group is as it was.  "The"
\* redhat group: the index holds one group of that name.
C3_RedhatIsSortedUnion ==
    GroupsWritten =>
        LET pre == groupFile.DashboardGroups
            post == attempts[1].data.DashboardGroups
        IN /\ Len(post) = Len(pre)
           /\ \A i \in DOMAIN pre :
                /\ post[i].Name = pre[i].Name
                /\ pre[i].Name # "redhat" => post[i] = pre[i]
                /\ RedhatGroups(pre) = {i} =>
                      /\ StrictlySorted(post[i].DashboardNames)
                      /\ Range(post[i].DashboardNames)
                            = Range(pre[i].DashboardNames) \cup DashboardNames(dashboards)

\* C3, witness: groups.yaml is written with a redhat group that had names of
\* its own, beside another group, in a run that derived a dashboard the
\* group did not list.
C3_Witness ==
    /\ GroupsWritten
    /\ \E i, j \in DOMAIN groupFile.DashboardGroups :
          /\ RedhatGroups(groupFile.DashboardGroups) = {i}
          /\ groupFile.DashboardGroups[i].DashboardNames # <<>>
          /\ groupFile.DashboardGroups[j].Name = "other"
          /\ \E k \in DOMAIN dashboards :
                dashboards[k].Name \notin Range(groupFile.DashboardGroups[i].DashboardNames)

\* what a Redact of text with result out shows of the strings in set: no
\* one of them is left in out, which differs from text only by masks, and a
\* position outside every occurrence is as it was
Masked(set, text, out) ==
    /\ Len(out) = Len(text)
    /\ \A i \in DOMAIN text : out[i] = text[i] \/ out[i] = "*"
    /\ \A s \in set \ {Empty} : \A j \in 1..Len(out) :
          j + Len(s) - 1 <= Len(out) => SubSeq(out, j, j + Len(s) - 1) # s
    /\ \A i \in DOMAIN text :
          (\A s \in set \ {Empty} : \A j \in 1..i :
              ~(i < j + Len(s) /\ j + Len(s) - 1 <= Len(text)
                /\ SubSeq(text, j, j + Len(s) - 1) = s))
          => out[i] = text[i]

\* C4: whenever the mutex is free, and so whenever no AddSecrets is under
\* way, the censorer was refreshed with exactly the set of secrets; a Redact
\* made then masks every occurrence of every secret added so far and leaves
\* the rest of the text as it was.
C4_CensorerIsCurrent ==
    /\ lock = 0 => censorer = secrets
    /\ redacted.quiet => Masked(redacted.known, redacted.text, redacted.out)

\* C4, witness: after two AddSecrets calls have returned, a Redact masks an
\* occurrence of the first secret and of the second.
C4_Witness ==
    /\ redacted.quiet
    /\ redacted.known = {A, AB, B}
    /\ redacted.text = <<"b", "a", "b">>
    /\ redacted.out = <<"*", "*", "*">>
    /\ ncalls >= 2

\* C5: no string leaves the set, the set holds only strings passed to
\* AddSecrets, and when every call has returned it holds all of them.
C5_NoLostUpdate ==
    /\ everIn \subseteq secrets
    /\ secrets \subseteq requested
    /\ (\A t \in Threads : call[t].pc = "idle") => secrets = requested

\* C5, witness: two threads are in AddSecrets at once with disjoint
\* strings; one has inserted its own and holds the mutex, the other waits.
C5_Witness ==
    \E t, u \in Threads :
        /\ call[t].pc = "unlock" /\ call[t].items = {AB}
        /\ call[u].pc = "lock" /\ call[u].items = {A}
        /\ secrets = {AB}

\* C6, as stated: the set of secrets never holds the empty string.
C6_EmptyNeverRegistered == Empty \notin secrets

\* every name a dashboard shows: of its test groups, of its tabs and of the
\* test groups the tabs refer to
ShownNames(d) ==
    GroupNames(d) \cup TabNames(d)
    \cup {d.DashboardTab[i].TestGroupName : i \in DOMAIN d.DashboardTab}

\* C7: the excluded job is no test group and no tab of any dashboard: not of
\* the two built for the descriptor just visited, not of an accumulated one,
\* not of one written to a file.
C7_ExcludedNeverShown ==
    /\ visit.kind = "descriptor" =>
          ExcludedJob \notin ShownNames(visit.blocking) \cup ShownNames(visit.informing)
    /\ \A i \in DOMAIN dashboards : ExcludedJob \notin ShownNames(dashboards[i])
    /\ \A i \in DOMAIN attempts :
          attempts[i].file # GroupsYaml =>
              /\ \A k \in DOMAIN attempts[i].data.TestGroups :
                    attempts[i].data.TestGroups[k].Name # ExcludedJob
              /\ \A k \in DOMAIN attempts[i].data.Dashboards[1].DashboardTab :
                    attempts[i].data.Dashboards[1].DashboardTab[k].Name # ExcludedJob

\* C7, witness: a descriptor lists the excluded job as optional beside
\* another job, and a dashboard is kept for it.
C7_Witness ==
    /\ visit.kind = "descriptor"
    /\ \E k \in DOMAIN visit.doc.verify :
          visit.doc.verify[k].Name = ExcludedJob /\ visit.doc.verify[k].Optional
    /\ Len(visit.blocking.testGroups) > 0
    /\ dashboards # <<>>

\* the name under publish.mirror-to-origin.imageStreamRef.name, if any
MirrorPublishName(doc) == IF doc.mirrorKey = "imageStreamRef" THEN doc.mirrorName ELSE ""

C8_State ==
    visit.kind \in {"descriptor", "nopublish"} =>
        LET mirror == MirrorPublishName(visit.doc)
            tag == visit.doc.tagName
        IN /\ mirror # "" =>
                /\ visit.kind = "descriptor"
                /\ visit.product = "okd" /\ visit.version = mirror
           /\ (mirror = "" /\ tag # "") =>
                /\ visit.kind = "descriptor"
                /\ visit.product = "ocp" /\ visit.version = tag
           /\ (mirror = "" /\ tag = "") => visit.kind = "nopublish" /\ pc = "walk"

C8_Step ==
    (nfiles' # nfiles /\ visit'.kind = "nopublish") => dashboards' = dashboards /\ pc' = pc

\* C8: a descriptor with a mirror publish name is okd at that name, whatever
\* its tag name; one with a tag name only is ocp at that name; one with
\* neither is skipped: the walk goes on and the dashboards are as they were.
C8_PublishDestination == []C8_State /\ [][C8_Step]_vars

\* C8, witness: a descriptor with both names was visited and is okd at the
\* mirror name.
C8_Witness ==
    /\ visit.kind = "descriptor"
    /\ MirrorPublishName(visit.doc) = "4.1" /\ visit.doc.tagName = "4.2"
    /\ visit.blocking.Name = "redhat-openshift-okd-release-4.1-blocking"

IsSuffix(tail, seq) ==
    /\ Len(tail) <= Len(seq)
    /\ SubSeq(seq, Len(seq) - Len(tail) + 1, Len(seq)) = tail

\* C9: every accumulated dashboard has a test group; of the two dashboards
\* of the descriptor just visited only those with a test group were
\* appended; a dashboard file is written only for an accumulated dashboard
\* and holds a test group; and the written redhat group lists no name beside
\* the ones it had and the names of the accumulated dashboards.
C9_OnlyNonEmptyRetained ==
    /\ \A i \in DOMAIN dashboards :
          Len(dashboards[i].testGroups) >= 1 /\ Len(dashboards[i].DashboardTab) >= 1
    /\ visit.kind = "descriptor" =>
          IsSuffix(SelectSeq(<<visit.blocking, visit.informing>>,
                             LAMBDA d : Len(d.testGroups) >= 1), dashboards)
    /\ \A i \in DOMAIN attempts :
          attempts[i].file # GroupsYaml =>
              /\ \E k \in DOMAIN dashboards : attempts[i].file = FileFor(dashboards[k])
              /\ Len(attempts[i].data.TestGroups) >= 1
    /\ GroupsWritten =>
          \A i \in DOMAIN attempts[1].data.DashboardGroups :
              Range(attempts[1].data.DashboardGroups[i].DashboardNames)
                  \subseteq DashboardNames(dashboards)
                            \cup UNION {Range(groupFile.DashboardGroups[j].DashboardNames)
                                        : j \in DOMAIN groupFile.DashboardGroups}

\* C9, witness: a run is done in which the one descriptor routed jobs to the
\* informing dashboard only: its file is written, none for the blocking
\* one, and the redhat group does not list the blocking one.
C9_Witness ==
    /\ pc = "done"
    /\ GroupsWritten
    /\ DashboardNames(dashboards) = {"redhat-openshift-ocp-release-4.2-informing"}
    /\ OkWrites("redhat-openshift-ocp-release-4.2-informing.yaml") # {}
    /\ \E i \in DOMAIN groups :
          /\ groups[i].Name = "redhat"
          /\ groups[i].DashboardNames = <<"redhat-openshift-ocp-release-4.2-informing">>

\* C10: nothing is written before groups.yaml is read and parsed; a failed
\* walk or a failed read of groups.yaml is fatal with nothing written;
\* groups.yaml is the first write and no other; a failed write is fatal and
\* is the last one.
C10_WritesInOrder ==
    /\ pc \in {"walk", "readGroups", "writeGroups"} => attempts = <<>>
    /\ visit.kind \in {"walkerr", "unreadable", "garbage"} => pc = "fatal" /\ attempts = <<>>
    /\ groupFile.kind \in {"unreadable", "garbage"} => pc = "fatal" /\ attempts = <<>>
    /\ \A i \in DOMAIN attempts :
          /\ attempts[i].file = GroupsYaml <=> i = 1
          /\ ~attempts[i].ok => i = Len(attempts) /\ pc = "fatal"

\* C10, witness: groups.yaml and a dashboard file were written, and the
\* write of the next dashboard file failed.
C10_Witness ==
    /\ pc = "fatal"
    /\ Len(attempts) = 3
    /\ attempts[1].ok /\ attempts[2].ok /\ ~attempts[3].ok

====
